---------------------------- MODULE Spec2Model ----------------------------
(***************************************************************************)
(* A model of nntrainer's configuration-token resolver                     *)
(* (nntrainer/src/parse_util.cpp: parseType, parseLayerProperty) and of    *)
(* the optimizer factory and plugin descriptor of                          *)
(* nntrainer/optimizers/optimizer_devel.h.                                 *)
(*                                                                         *)
(* A std::string is a sequence of one-character strings; c_str() appends   *)
(* the terminating NUL.  Table indices are the code's (0-based): entry i   *)
(* of a std::array is element i + 1 of the sequence that models it.        *)
(***************************************************************************)
EXTENDS Integers, Sequences, FiniteSets, TLC

VARIABLES
  ll,     \* the token handed to parseType / parseLayerProperty
  t,      \* the InputType handed to parseType
  op,     \* which function has been called on (ll, t): "none" before the call
  ret,    \* the value the call returned (-1 before the call)
  slots   \* one record per attempt to create an Optimizer, in order

parseVars == <<ll, t, op, ret>>

vars == <<ll, t, op, ret, slots>>

---------------------------------------------------------------------------
(* Characters *)

NUL == ""

Lower == <<"a","b","c","d","e","f","g","h","i","j","k","l","m",
           "n","o","p","q","r","s","t","u","v","w","x","y","z">>

Upper == <<"A","B","C","D","E","F","G","H","I","J","K","L","M",
           "N","O","P","Q","R","S","T","U","V","W","X","Y","Z">>

\* The letters tolower and toupper change, each with its other case.
LowerOf == [c \in {Upper[k] : k \in 1..26} |-> Lower[CHOOSE k \in 1..26 : Upper[k] = c]]

UpperOf == [c \in {Lower[k] : k \in 1..26} |-> Upper[CHOOSE k \in 1..26 : Lower[k] = c]]

\* tolower(3) in the C locale: A..Z go to a..z, every other character to itself.
tolower(c) == IF c \in DOMAIN LowerOf THEN LowerOf[c] ELSE c

\* toupper(3) in the C locale (used only to build the inputs).
toupper(c) == IF c \in DOMAIN UpperOf THEN UpperOf[c] ELSE c

\* std::string::c_str(): the characters followed by the terminating NUL.
c_str(s) == s \o <<NUL>>

---------------------------------------------------------------------------
(* strncasecmp(3): compares at most n characters of the NUL-terminated     *)
(* strings s1 and s2, ignoring case, and stops at the first difference or  *)
(* at a NUL.  The callers only test the result against 0, so a difference  *)
(* is reported as 1 whatever its sign.                                     *)

RECURSIVE strncasecmp_from(_, _, _, _)
strncasecmp_from(s1, s2, n, k) ==
  IF k > n THEN 0
  ELSE IF tolower(s1[k]) # tolower(s2[k]) THEN 1
  ELSE IF s1[k] = NUL THEN 0
  ELSE strncasecmp_from(s1, s2, n, k + 1)

\* A case-sensitive comparison (strncmp) in strncasecmp's place.
RECURSIVE strncmp_from(_, _, _, _)
strncmp_from(s1, s2, n, k) ==
  IF k > n THEN 0
  ELSE IF s1[k] # s2[k] THEN 1
  ELSE IF s1[k] = NUL THEN 0
  ELSE strncmp_from(s1, s2, n, k + 1)

strncmp(s1, s2, n) == strncmp_from(s1, s2, n, 1)

strncasecmp(s1, s2, n) == strncasecmp_from(s1, s2, n, 1)

---------------------------------------------------------------------------
(* The lookup tables of parseType and parseLayerProperty *)

optimizer_string == << <<"s","g","d">>, <<"a","d","a","m">>,
                       <<"u","n","k","n","o","w","n">> >>

cost_string == << <<"m","s","r">>, <<"c","r","o","s","s">>,
                  <<"u","n","k","n","o","w","n">> >>

network_type_string ==
  << <<"k","n","n">>,
     <<"r","e","g","r","e","s","s","i","o","n">>,
     <<"n","e","u","r","a","l","n","e","t">>,
     <<"u","n","k","n","o","w","n">> >>

activation_string ==
  << <<"t","a","n","h">>,
     <<"s","i","g","m","o","i","d">>,
     <<"r","e","l","u">>,
     <<"s","o","f","t","m","a","x">>,
     <<"u","n","k","n","o","w","n">> >>

layer_string ==
  << <<"i","n","p","u","t">>,
     <<"f","u","l","l","y","_","c","o","n","n","e","c","t","e","d">>,
     <<"b","a","t","c","h","_","n","o","r","m","a","l","i","z","a","t","i","o","n">>,
     <<"u","n","k","n","o","w","n">> >>

weight_ini_string ==
  << <<"l","e","c","u","n","_","n","o","r","m","a","l">>,
     <<"l","e","c","u","n","_","u","n","i","f","o","r","m">>,
     <<"x","a","v","i","e","r","_","n","o","r","m","a","l">>,
     <<"x","a","v","i","e","r","_","u","n","i","f","o","r","m">>,
     <<"h","e","_","n","o","r","m","a","l">>,
     <<"h","e","_","u","n","i","f","o","r","m">>,
     <<"u","n","k","n","o","w","n">> >>

weight_decay_string ==
  << <<"l","2","n","o","r","m">>,
     <<"r","e","g","r","e","s","s","i","o","n">>,
     <<"u","n","k","n","o","w","n">> >>

property_string ==
  << <<"i","n","p","u","t","_","s","h","a","p","e">>,
     <<"b","i","a","s","_","z","e","r","o">>,
     <<"n","o","r","m","a","l","i","z","a","t","i","o","n">>,
     <<"s","t","a","n","d","a","r","d","i","z","a","t","i","o","n">>,
     <<"a","c","t","i","v","a","t","i","o","n">>,
     <<"e","p","s","i","l","o","n">>,
     <<"w","e","i","g","h","t","_","d","e","c","a","y">>,
     <<"u","n","k","n","o","w","n">> >>

\* The cases of parseType's switch that scan a table.
HandledTypes == {"TOKEN_OPT", "TOKEN_COST", "TOKEN_NET", "TOKEN_ACTI",
                 "TOKEN_LAYER", "TOKEN_WEIGHTINI", "TOKEN_WEIGHT_DECAY"}

\* The values parseType may be handed: the handled cases, TOKEN_UNKNOWN, and
\* a value that is none of the switch's labels (its default branch).
InputType == HandledTypes \cup {"TOKEN_UNKNOWN", "TOKEN_OTHER"}

\* The table each case of the switch scans.
TableOf(ty) ==
  CASE ty = "TOKEN_OPT"          -> optimizer_string
    [] ty = "TOKEN_COST"         -> cost_string
    [] ty = "TOKEN_NET"          -> network_type_string
    [] ty = "TOKEN_ACTI"         -> activation_string
    [] ty = "TOKEN_LAYER"        -> layer_string
    [] ty = "TOKEN_WEIGHTINI"    -> weight_ini_string
    [] ty = "TOKEN_WEIGHT_DECAY" -> weight_decay_string

---------------------------------------------------------------------------
(* The scan both functions run over a table *)

\* The test of the loop body with the token's length as the count.
MatchesTokenLen(entry, token) ==
  strncasecmp(c_str(entry), c_str(token), Len(token)) = 0

\* The test of the loop body with a case-sensitive comparison.
MatchesCaseSensitive(entry, token) ==
  strncmp(c_str(entry), c_str(token), Len(entry)) = 0

\* !strncasecmp(table[i].c_str(), token.c_str(), table[i].size())
Matches(entry, token) ==
  strncasecmp(c_str(entry), c_str(token), Len(entry)) = 0

\* The scan with "ret = i" after the loop in place of "ret = i - 1".
RECURSIVE ScanFromNoDecrement(_, _, _)
ScanFromNoDecrement(table, token, i) ==
  IF i < Len(table)
    THEN IF Matches(table[i + 1], token)
           THEN i
           ELSE ScanFromNoDecrement(table, token, i + 1)
    ELSE i

\* for (i = 0; i < table.size(); i++) if (match) return i;  ret = i - 1;
RECURSIVE ScanFrom(_, _, _)
ScanFrom(table, token, i) ==
  IF i < Len(table)
    THEN IF Matches(table[i + 1], token)
           THEN i
           ELSE ScanFrom(table, token, i + 1)
    ELSE i - 1

\* The value of the TOKEN_UNKNOWN and default branches of the switch.
UnknownTypeRet == 3

parseType(token, ty) ==
  IF ty \in HandledTypes
    THEN ScanFrom(TableOf(ty), token, 0)
    ELSE UnknownTypeRet

parseLayerProperty(property) == ScanFrom(property_string, property, 0)

---------------------------------------------------------------------------
(* The tokens the resolver is run on: every prefix of every table entry    *)
(* and of the two unknown-name examples, followed by up to MaxExtra more   *)
(* characters, in three letter cases.                                      *)

MaxExtra == 1

ExtraChars == {"x", "="}

made_up_optimizer ==
  <<"m","a","d","e","_","u","p","_","o","p","t","i","m","i","z","e","r">>

not_a_real_key ==
  <<"n","o","t","_","a","_","r","e","a","l","_","k","e","y","=","1">>

Range(s) == {s[k] : k \in 1..Len(s)}

AllTables == {optimizer_string, cost_string, network_type_string,
              activation_string, layer_string, weight_ini_string,
              weight_decay_string, property_string}

AllEntries == UNION {Range(tab) : tab \in AllTables}

Prefixes(s) == {SubSeq(s, 1, k) : k \in 0..Len(s)}

Stems == UNION {Prefixes(s) : s \in AllEntries \cup {made_up_optimizer, not_a_real_key}}

Suffixes == UNION {[1..n -> ExtraChars] : n \in 0..MaxExtra}

LetterCases == {"asis", "upper", "mixed"}

Recase(s, mode) ==
  CASE mode = "asis"  -> s
    [] mode = "upper" -> [k \in 1..Len(s) |-> toupper(s[k])]
    [] mode = "mixed" -> [k \in 1..Len(s) |-> IF k % 2 = 1 THEN toupper(s[k]) ELSE s[k]]

Tokens == {Recase(p \o x, m) : p \in Stems, x \in Suffixes, m \in LetterCases}

---------------------------------------------------------------------------
(* The resolver as a state machine: a caller holds a token and a category  *)
(* and calls one of the two functions on them.                             *)

ParseInit ==
  /\ ll \in Tokens
  /\ t \in InputType
  /\ op = "none"
  /\ ret = -1
  /\ slots = <<>>

CallParseType ==
  /\ op = "none"
  /\ op' = "parseType"
  /\ ret' = parseType(ll, t)
  /\ UNCHANGED <<ll, t, slots>>

CallParseLayerProperty ==
  /\ op = "none"
  /\ op' = "parseLayerProperty"
  /\ ret' = parseLayerProperty(ll)
  /\ UNCHANGED <<ll, t, slots>>

ParseNext == CallParseType \/ CallParseLayerProperty

Spec == ParseInit /\ [][ParseNext]_vars

---------------------------------------------------------------------------
(* What the claims speak of, stated without the code's comparison *)

\* a and b are the same character up to letter case
SameCI(a, b) ==
  \/ a = b
  \/ (a \in DOMAIN LowerOf /\ LowerOf[a] = b)
  \/ (b \in DOMAIN LowerOf /\ LowerOf[b] = a)

\* token begins with entry, ignoring case
StartsWithCI(token, entry) ==
  /\ Len(entry) <= Len(token)
  /\ \A k \in 1..Len(entry) : SameCI(entry[k], token[k])

EqualCI(a, b) == Len(a) = Len(b) /\ StartsWithCI(a, b)

\* token is a proper, non-empty abbreviation of entry
AbbreviatesCI(token, entry) ==
  /\ Len(token) > 0
  /\ Len(token) < Len(entry)
  /\ StartsWithCI(entry, token)

\* The table the call in hand scanned (none for an unhandled category).
Scanned == IF op = "parseLayerProperty" THEN property_string ELSE TableOf(t)

ScanDone == op = "parseLayerProperty" \/ (op = "parseType" /\ t \in HandledTypes)

\* 0-based indices of the entries of tab that token begins with
Hits(tab, token) == {i \in 0..(Len(tab) - 1) : StartsWithCI(token, tab[i + 1])}

Min(S) == CHOOSE x \in S : \A y \in S : x <= y

\* The key part of a property token: the text before the first '='.
KeyPart(token) ==
  IF \E k \in 1..Len(token) : token[k] = "="
    THEN SubSeq(token, 1, Min({k \in 1..Len(token) : token[k] = "="}) - 1)
    ELSE token

\* The token with the letter at position k turned to its other case.
FlipCase(token, k) ==
  [token EXCEPT ![k] = IF tolower(token[k]) = token[k]
                         THEN toupper(token[k]) ELSE tolower(token[k])]

---------------------------------------------------------------------------
(* Claims about the resolver *)

\* C1: for every token and every table, the lookup returns the index of the
\* first table entry the token begins with (ignoring case), the last index
\* when there is none; and it returns the last index (the "unknown" slot)
\* exactly when the token begins with none of the entries before that slot.
C1_FirstPrefixMatch ==
  ScanDone =>
    LET tab  == Scanned
        last == Len(tab) - 1
        hits == Hits(tab, ll)
    IN /\ ret = (IF hits # {} THEN Min(hits) ELSE last)
       /\ (ret = last) <=> (hits \ {last} = {})

\* C1 witness: a call that matched an entry in the middle of a table, through
\* a token longer than the entry and in another letter case.
C1_Witness ==
  /\ op = "parseType" /\ t = "TOKEN_ACTI"
  /\ ll = <<"R","E","L","U","X">>
  /\ ret = 2

\* C2 as stated: every token that is not equal, ignoring case, to "sgd" or
\* "adam" resolves under TOKEN_OPT to the unknown index 2.
C2_Original ==
  (/\ op = "parseType" /\ t = "TOKEN_OPT"
   /\ ~EqualCI(ll, optimizer_string[1])
   /\ ~EqualCI(ll, optimizer_string[2])) => ret = 2

\* C2 as amended: every token that does not begin, ignoring case, with "sgd"
\* or "adam" resolves under TOKEN_OPT to the unknown index 2, never to 0 or 1;
\* and a token that does begin with one of them resolves to it.
C2_UnknownOptimizer ==
  (op = "parseType" /\ t = "TOKEN_OPT") =>
    /\ (~StartsWithCI(ll, optimizer_string[1]) /\ ~StartsWithCI(ll, optimizer_string[2]))
         => ret = 2
    /\ StartsWithCI(ll, optimizer_string[1]) => ret = 0
    /\ StartsWithCI(ll, optimizer_string[2]) => ret = 1

\* C2 witness: "made_up_optimizer" resolved to the unknown index.
C2_Witness ==
  /\ op = "parseType" /\ t = "TOKEN_OPT"
  /\ ll = made_up_optimizer
  /\ ret = 2

\* C3 as stated: every token whose key part (the text before the first '=')
\* is not equal, ignoring case, to one of the seven property names resolves
\* to the unknown index 7.
C3_Original ==
  (/\ op = "parseLayerProperty"
   /\ \A i \in 0..6 : ~EqualCI(KeyPart(ll), property_string[i + 1])) => ret = 7

\* C3 as amended: every token that does not begin, ignoring case, with one of
\* the seven property names resolves to the unknown index 7, never to 0..6.
C3_UnknownProperty ==
  (/\ op = "parseLayerProperty"
   /\ \A i \in 0..6 : ~StartsWithCI(ll, property_string[i + 1])) => ret = 7

\* C3 witness: "not_a_real_key=1" resolved to the unknown index.
C3_Witness ==
  /\ op = "parseLayerProperty"
  /\ ll = not_a_real_key
  /\ ret = 7

\* C6 as stated: a token that is a proper, non-empty abbreviation of a table
\* entry resolves to that entry's index.
C6_Original ==
  ScanDone =>
    \A i \in 0..(Len(Scanned) - 1) :
      AbbreviatesCI(ll, Scanned[i + 1]) => ret = i

\* C6 as amended: a proper, non-empty abbreviation of a table entry resolves
\* to the unknown index; it is a token that begins with the whole entry
\* (the entry followed by any further characters) that resolves to the
\* entry's index.
C6_NoAbbreviation ==
  ScanDone =>
    \A i \in 0..(Len(Scanned) - 1) :
      /\ AbbreviatesCI(ll, Scanned[i + 1]) => ret = Len(Scanned) - 1
      /\ StartsWithCI(ll, Scanned[i + 1]) => ret = i

\* C6 witness: "sig" under TOKEN_ACTI resolved to the unknown index 4.
C6_Witness ==
  /\ op = "parseType" /\ t = "TOKEN_ACTI"
  /\ ll = <<"s","i","g">>
  /\ ret = 4

\* C6 second case: a token that extends "sigmoid" resolved to its index 1.
C6_ExtendedReached ==
  /\ op = "parseType" /\ t = "TOKEN_ACTI"
  /\ ll = <<"s","i","g","m","o","i","d","x">>
  /\ ret = 1

\* C7: the call returns the same index for the token and for every variant
\* of it that differs in the letter case of one character (so, step by step,
\* of any number of characters).
C7_CaseInsensitive ==
  /\ op = "parseType" =>
       \A k \in 1..Len(ll) : parseType(FlipCase(ll, k), t) = ret
  /\ op = "parseLayerProperty" =>
       \A k \in 1..Len(ll) : parseLayerProperty(FlipCase(ll, k)) = ret

\* C7 witness: a mixed-case token resolved to a named entry.
C7_Witness ==
  /\ op = "parseType" /\ t = "TOKEN_OPT"
  /\ ll = <<"A","d","A","m">>
  /\ ret = 1

\* C9: a category that selects no table yields 3 whatever the token; a
\* handled category yields, when the token begins with none of the table's
\* entries, the table's last index: 2 for optimizer, cost and weight decay,
\* 3 for network and layer, 4 for activation, 6 for weight initialization.
C9_UnknownValues ==
  op = "parseType" =>
    /\ t \notin HandledTypes => ret = 3
    /\ (t \in HandledTypes /\ Hits(TableOf(t), ll) = {}) =>
         ret = (CASE t \in {"TOKEN_OPT", "TOKEN_COST", "TOKEN_WEIGHT_DECAY"} -> 2
                  [] t \in {"TOKEN_NET", "TOKEN_LAYER"} -> 3
                  [] t = "TOKEN_ACTI" -> 4
                  [] t = "TOKEN_WEIGHTINI" -> 6)

\* C9 witness: a default-branch category on a token that names an optimizer.
C9_Witness ==
  /\ op = "parseType" /\ t = "TOKEN_OTHER"
  /\ ll = <<"s","g","d">>
  /\ ret = 3

\* C9 second case: no match under weight initialization gave 6.
C9_NoMatchReached ==
  /\ op = "parseType" /\ t = "TOKEN_WEIGHTINI"
  /\ ll = made_up_optimizer
  /\ ret = 6

\* The scan in the opposite order: from the last entry down to the first.
RECURSIVE ScanDownFrom(_, _, _)
ScanDownFrom(table, token, i) ==
  IF i >= 0
    THEN IF Matches(table[i + 1], token)
           THEN i
           ELSE ScanDownFrom(table, token, i - 1)
    ELSE Len(table) - 1

\* No entry of a table begins with another entry of it, ignoring case.
TablesPrefixFree ==
  \A tab \in AllTables : \A i, j \in 1..Len(tab) :
    i # j => ~StartsWithCI(tab[i], tab[j])

\* C10: within each table no entry begins with another entry (ignoring
\* case), so for every token at most one entry passes the code's test and
\* scanning the table in the opposite order returns the same index.
C10_MatchUnique ==
  /\ TablesPrefixFree
  /\ ScanDone =>
       /\ Cardinality({i \in 1..Len(Scanned) : Matches(Scanned[i], ll)}) <= 1
       /\ ScanDownFrom(Scanned, ll, Len(Scanned) - 1) = ret

\* C10 witness: a token that begins with one of two entries sharing a long
\* common stem resolved to that one.
C10_Witness ==
  /\ op = "parseType" /\ t = "TOKEN_WEIGHTINI"
  /\ ll = <<"l","e","c","u","n","_","u","n","i","f","o","r","m","=">>
  /\ ret = 1

---------------------------------------------------------------------------
(* Optimizer instances: the factory createOptimizer<T>, the plugin         *)
(* descriptor OptimizerPluggable, and the holders of the instances.        *)
(*                                                                         *)
(* slots[i] describes the i-th attempt to create an instance:              *)
(*   via        <<"core">> (createOptimizer<T>) or <<"plugin", d>>, d the  *)
(*              unit whose create function made it                         *)
(*   outcome    "returned", "null" (a create function gave no instance),   *)
(*              "threw_ctor" or "threw_setProperty"                        *)
(*   status     "null" (no instance), "alive" or "destroyed"               *)
(*   handle     whether the holder's owning handle still points at it      *)
(*   deleter    what the owning handle frees the instance with:            *)
(*              <<"delete">> or <<"destroyfunc", d>>                       *)
(*   setByFactory  the setProperty calls the factory made on it            *)
(*   setThrew   whether such a call signalled an error                     *)
(*   ops, lastOp   the holder's operations on it, and the latest           *)
(*   usedDead   whether an operation ran on it while it was not alive      *)
(*   freedBy    the deallocators run on it, in order                       *)
(***************************************************************************)

MaxCreates == 2

MaxOps == 1

NumPlugins == 2

Plugins == 1..NumPlugins

\* The property lists createOptimizer is called with (its default, {}, and a
\* one-key list).
PropLists == { <<>>, << <<"e","p","s","i","l","o","n","=","1">> >> }

\* The operations of the Optimizer interface a holder may call.
Operations == {"setProperty", "finalize", "read", "applyGradient", "save"}

\* The descriptor a plugin unit d exposes: a create function and a destroy
\* function, each named by the unit (the allocation domain) it belongs to.
OptimizerPluggable(d) == [createfunc |-> d, destroyfunc |-> d]

\* The deallocators a registry handle may hold: a plugin's destroy function.
PluginDeleters == {<<"destroyfunc", OptimizerPluggable(d).destroyfunc>> : d \in Plugins}

NoInstance(via, outcome) ==
  [via |-> via, outcome |-> outcome, status |-> "null",
   handle |-> FALSE, deleter |-> <<>>, setByFactory |-> 0, setThrew |-> FALSE,
   ops |-> 0, lastOp |-> "none", usedDead |-> FALSE, freedBy |-> <<>>]

\* A deallocator run on an instance.
Free(inst, by) ==
  [inst EXCEPT !.status = "destroyed", !.freedBy = Append(@, by)]

\* createOptimizer<T>(props) with a handler that swallows setProperty's error
\* and returns the instance.
CreateOptimizerSwallows(props, ctorOk, setOk) ==
  /\ Len(slots) < MaxCreates
  /\ slots' = Append(slots,
       IF ~ctorOk
         THEN NoInstance(<<"core">>, "threw_ctor")
         ELSE [NoInstance(<<"core">>, "returned") EXCEPT
                 !.status = "alive", !.handle = TRUE, !.deleter = <<"delete">>,
                 !.setByFactory = 1, !.setThrew = ~setOk])
  /\ UNCHANGED parseVars

\* createOptimizer<T>(props):
\*   std::unique_ptr<Optimizer> ptr = std::make_unique<T>();
\*   ptr->setProperty(props);
\*   return ptr;
\* props only reaches T::setProperty, whose outcome is setOk.
\* ctorOk: T's constructor returns (else it throws and no instance exists).
\* setOk: T::setProperty returns (else it throws; the stack unwinds, ptr's
\* destructor deletes the instance, and the exception leaves the function).
CreateOptimizer(props, ctorOk, setOk) ==
  /\ Len(slots) < MaxCreates
  /\ slots' = Append(slots,
       IF ~ctorOk
         THEN NoInstance(<<"core">>, "threw_ctor")
         ELSE LET made == [NoInstance(<<"core">>, "returned") EXCEPT
                             !.status = "alive", !.handle = TRUE,
                             !.deleter = <<"delete">>]
                  set  == [made EXCEPT !.setByFactory = @ + 1, !.setThrew = ~setOk]
              IN IF setOk
                   THEN set
                   ELSE [Free(set, <<"delete">>) EXCEPT
                           !.outcome = "threw_setProperty", !.handle = FALSE])
  /\ UNCHANGED parseVars

\* The holder of a createOptimizer result lets go of it: the default deleter
\* of std::unique_ptr<Optimizer> deletes the instance and the handle is empty.
UniquePtrReset(i) ==
  /\ slots[i].handle
  /\ slots[i].deleter = <<"delete">>
  /\ slots' = [slots EXCEPT ![i] = [Free(@, <<"delete">>) EXCEPT !.handle = FALSE]]
  /\ UNCHANGED parseVars

\* The registry creates an instance through plugin d's descriptor and keeps
\* the descriptor with the handle.  ok: createfunc returned an instance (else
\* it returned none, which the registry reports and never dereferences).
RegistryCreate(d, ok) ==
  /\ Len(slots) < MaxCreates
  /\ slots' = Append(slots,
       IF ok
         THEN [NoInstance(<<"plugin", OptimizerPluggable(d).createfunc>>, "returned") EXCEPT
                 !.status = "alive", !.handle = TRUE, !.deleter = <<"destroyfunc", OptimizerPluggable(d).destroyfunc>>]
         ELSE NoInstance(<<"plugin", OptimizerPluggable(d).createfunc>>, "null"))
  /\ UNCHANGED parseVars

\* The registry frees a plugin instance through the core's delete.
RegistryDestroyGeneric(i) ==
  /\ slots[i].handle
  /\ slots[i].deleter \in PluginDeleters
  /\ slots' = [slots EXCEPT ![i] = [Free(@, <<"delete">>) EXCEPT !.handle = FALSE]]
  /\ UNCHANGED parseVars

\* The registry destroys a plugin instance: through the destroy function of
\* the descriptor kept with the handle.
RegistryDestroy(i) ==
  /\ slots[i].handle
  /\ slots[i].deleter \in PluginDeleters
  /\ slots' = [slots EXCEPT ![i] =
       [Free(@, slots[i].deleter) EXCEPT
          !.handle = FALSE]]
  /\ UNCHANGED parseVars

\* The holder calls an operation on whatever slot i names, held or not.
OperateUnguarded(i, o) ==
  /\ slots[i].ops < MaxOps
  /\ slots' = [slots EXCEPT ![i] =
       [@ EXCEPT !.ops = @ + 1, !.lastOp = o,
                 !.usedDead = @ \/ slots[i].status # "alive"]]
  /\ UNCHANGED parseVars

\* The holder calls an operation of the interface through its handle.
Operate(i, o) ==
  /\ slots[i].handle
  /\ slots[i].ops < MaxOps
  /\ slots' = [slots EXCEPT ![i] =
       [@ EXCEPT !.ops = @ + 1, !.lastOp = o,
                 !.usedDead = @ \/ slots[i].status # "alive"]]
  /\ UNCHANGED parseVars

OptInit ==
  /\ ll = <<>>
  /\ t = "TOKEN_UNKNOWN"
  /\ op = "none"
  /\ ret = -1
  /\ slots = <<>>

OptNext ==
  \/ \E props \in PropLists, ctorOk \in BOOLEAN, setOk \in BOOLEAN :
       CreateOptimizer(props, ctorOk, setOk)
  \/ \E i \in 1..Len(slots) : UniquePtrReset(i)
  \/ \E d \in Plugins, ok \in BOOLEAN : RegistryCreate(d, ok)
  \/ \E i \in 1..Len(slots) : RegistryDestroy(i)
  \/ \E i \in 1..Len(slots), o \in Operations : Operate(i, o)

OptSpec == OptInit /\ [][OptNext]_vars

---------------------------------------------------------------------------
(* Claims about optimizer instances *)

PluginSlots == {i \in 1..Len(slots) : slots[i].via # <<"core">>}

CoreSlots == {i \in 1..Len(slots) : slots[i].via = <<"core">>}

\* C4: across any sequence of creates and destroys over any number of plugin
\* descriptors, an instance made by a descriptor's create function is freed
\* only by that same descriptor's destroy function, never by the core's
\* delete and never by another descriptor's destroy function.
C4_PluginSymmetry ==
  \A i \in PluginSlots :
    \A k \in 1..Len(slots[i].freedBy) :
      slots[i].freedBy[k] = <<"destroyfunc", slots[i].via[2]>>

\* C4 witness: an instance of the second plugin has been destroyed while an
\* instance made by the core has been deleted.
C4_Witness ==
  /\ \E i \in PluginSlots :
       slots[i].via = <<"plugin", 2>> /\ slots[i].status = "destroyed"
  /\ \E j \in CoreSlots :
       slots[j].outcome = "returned" /\ slots[j].freedBy = << <<"delete">> >>

\* C5: for every instance, no operation runs on it before its creation has
\* succeeded (a failed creation leaves nothing that is ever operated on or
\* freed), none runs after its destruction, and it is destroyed at most once.
C5_LifecycleOrder ==
  \A i \in 1..Len(slots) :
    /\ ~slots[i].usedDead
    /\ Len(slots[i].freedBy) <= 1
    /\ slots[i].status = "null" =>
         (slots[i].ops = 0 /\ slots[i].setByFactory = 0 /\ slots[i].freedBy = <<>>)
    /\ slots[i].handle => slots[i].status = "alive"

\* C5 witness: an instance was operated on and then destroyed, beside a
\* creation that failed.
C5_Witness ==
  /\ \E i \in 1..Len(slots) :
       slots[i].ops > 0 /\ slots[i].status = "destroyed"
  /\ \E j \in 1..Len(slots) : slots[j].status = "null"

\* C8: a createOptimizer call that returns has constructed one instance and
\* called setProperty on it exactly once, and hands it over alive, owned by a
\* handle that deletes it; when setProperty signals an error the call does
\* not return an instance: the error leaves the call, and the constructed
\* instance has been deleted exactly once.
C8_CreateOptimizer ==
  \A i \in CoreSlots :
    /\ slots[i].outcome \in {"returned", "threw_ctor", "threw_setProperty"}
    /\ slots[i].outcome = "returned" =>
         /\ slots[i].status # "null"
         /\ slots[i].setByFactory = 1
         /\ ~slots[i].setThrew
         /\ slots[i].deleter = <<"delete">>
         /\ slots[i].handle => (slots[i].status = "alive" /\ slots[i].freedBy = <<>>)
    /\ slots[i].setThrew =>
         /\ slots[i].outcome = "threw_setProperty"
         /\ slots[i].setByFactory = 1
         /\ ~slots[i].handle
         /\ slots[i].ops = 0
         /\ slots[i].status = "destroyed"
         /\ slots[i].freedBy = << <<"delete">> >>
    /\ slots[i].outcome = "threw_ctor" =>
         (slots[i].status = "null" /\ slots[i].setByFactory = 0)

\* C8 witness: one call whose setProperty signalled an error, and one call
\* that returned its instance, still held.
C8_Witness ==
  /\ \E i \in CoreSlots :
       slots[i].setThrew /\ slots[i].freedBy = << <<"delete">> >>
  /\ \E j \in CoreSlots :
       slots[j].outcome = "returned" /\ slots[j].setByFactory = 1 /\ slots[j].handle

============================================================================
